---------------------------- MODULE Spec2Model ----------------------------
(***************************************************************************)
(* A model of src/poc/simple_vanet.py: the VEC station / vehicle agents    *)
(* and the VECModel that schedules them (stations first, then vehicles).   *)
(*                                                                         *)
(* Numbers.  Coordinates are integers.  distance() is modelled by its      *)
(* square; every comparison the code makes on distances (d > range * 0.7,  *)
(* d / range > 1, the order of two ratios) is made on the squares, which   *)
(* gives the same answer for integer coordinates.  math.cos / math.sin of  *)
(* a heading are IEEE doubles: cos(radians(90)) is 6.1e-17 and not 0.  A   *)
(* component is therefore a pair (major, minor): major in units of the     *)
(* heading's leading magnitude, minor in units of the rounding residue.    *)
(* The sign of the dot product is the sign of the major sum when that is   *)
(* not zero, else the sign of the minor sum; for the headings of Dir and   *)
(* integer offsets below 23 (below 200 for every heading but 45 and 135)   *)
(* this is the sign the double computation yields.                         *)
(***************************************************************************)
EXTENDS Integers, Sequences, FiniteSets, TLC

(***************************************************************************)
(* Bounds of the model and constants of the program.                       *)
(***************************************************************************)
Width == 80                 \* VECModel(width, ...), an input
Height == 80                \* VECModel(..., height, ...), an input
MaxTick == 12               \* number of Model.step() calls explored
MaxConvoy == 10             \* size of a convoy of identical vehicles
MaxCoord == 3               \* coordinates of the direction queries
MaxSpread == 3              \* world sizes of the construction queries

TIME_STEP_MS == 500
MsPerSecond == 1000
NumStations == 4
waypoints_pos_offset == 5
station_pos_offset == 5
StationRange == 45
StationCapacity == 10
DistanceThresholdPct == 70  \* distance_threshold = 0.7
InitialAngle == 0

Stations == 0 .. (NumStations - 1)

(***************************************************************************)
(* The traces (the external trace feed).  A sample is <<timestep, x, y,    *)
(* heading>>; first_ts / last_ts are the timesteps of the first and last   *)
(* sample.                                                                 *)
(***************************************************************************)
MkTrace(first, pts) ==
    [first_ts |-> first,
     last_ts  |-> first + Len(pts) - 1,
     samples  |-> [i \in 1 .. Len(pts) |->
                      <<first + i - 1, pts[i][1], pts[i][2], pts[i][3]>>]]

\* a trace whose timesteps are given one by one (a feed that breaks its
\* contract: a gap, a repeated timestep)
MkTraceAt(times, pts) ==
    [first_ts |-> times[1],
     last_ts  |-> times[Len(times)],
     samples  |-> [i \in 1 .. Len(pts) |->
                      <<times[i], pts[i][1], pts[i][2], pts[i][3]>>]]

TraceIds == {"L", "T", "LB", "Ls", "D", "Loop", "Late"}
ScanIds == {"SkipDir", "SkipFull", "UTurn", "Slow"}
FaultyIds == {"Gap", "Dup", "DupEnd", "Out", "Beyond"}

TRACES ==
    [id \in TraceIds \cup ScanIds \cup FaultyIds |->
       CASE id = "L"    -> MkTrace(0, << <<5, 75, 270>>, <<10, 38, 270>>, <<10, 20, 270>> >>)
         [] id = "T"    -> MkTrace(0, << <<10, 75, 0>>, <<42, 70, 0>>, <<60, 70, 0>> >>)
         [] id = "LB"   -> MkTrace(0, << <<5, 75, 270>>, <<10, 38, 270>>, <<45, 5, 0>>,
                                         <<60, 5, 0>> >>)
         [] id = "Ls"   -> MkTrace(0, << <<5, 75, 270>>, <<10, 38, 270>> >>)
         [] id = "D"    -> MkTrace(0, << <<10, 70, 315>>, <<33, 47, 315>>, <<40, 40, 315>> >>)
         [] id = "Loop" -> MkTrace(0, << <<5, 5, 0>>, <<45, 5, 0>>, <<75, 45, 90>>,
                                         <<35, 75, 180>>, <<5, 35, 270>>, <<5, 5, 270>> >>)
         [] id = "Late" -> MkTrace(3, << <<5, 75, 270>>, <<10, 38, 270>> >>)
         [] id = "SkipDir"  -> MkTrace(0, << <<10, 70, 270>>, <<40, 42, 270>>,
                                             <<40, 30, 270>> >>)
         [] id = "SkipFull" -> MkTrace(0, << <<10, 70, 315>>, <<39, 43, 315>>,
                                             <<45, 37, 315>> >>)
         [] id = "UTurn"    -> MkTrace(0, << <<5, 75, 270>>, <<10, 38, 270>>, <<45, 5, 0>>,
                                             <<35, 10, 180>>, <<30, 10, 180>> >>)
         [] id = "Slow"     -> MkTrace(0, << <<10, 70, 270>>, <<10, 68, 270>>,
                                             <<10, 40, 270>>, <<10, 38, 270>>,
                                             <<10, 30, 270>> >>)
         [] id = "Gap"    -> MkTraceAt(<<0, 1, 3>>,
                                       << <<5, 75, 270>>, <<10, 38, 270>>, <<10, 20, 270>> >>)
         [] id = "Dup"    -> MkTraceAt(<<0, 1, 1, 2>>,
                                       << <<5, 75, 270>>, <<10, 38, 270>>, <<10, 30, 270>>,
                                          <<10, 20, 270>> >>)
         [] id = "DupEnd" -> MkTraceAt(<<0, 1, 1>>,
                                       << <<5, 75, 270>>, <<10, 38, 270>>, <<10, 20, 270>> >>)
         [] id = "Out"    -> MkTraceAt(<<0, 1, 2>>,
                                       << <<5, 75, 270>>, <<10, 38, 270>>,
                                          <<Width, 38, 0>> >>)
         [] id = "Beyond" -> MkTraceAt(<<0, 1, 2>>,
                                       << <<5, 75, 270>>, <<10, 38, 270>>,
                                          <<Width + 1, 38, 0>> >>)]

Rep(n, id) == [i \in 1 .. n |-> id]

ConvoySizes == {0, MaxConvoy - 1, MaxConvoy}

Tails == {<<>>} \cup {<<t>> : t \in TraceIds}
                \cup {<<t, u>> : t \in TraceIds, u \in TraceIds}

\* fleets for the scan of the neighbours, for several stations handing
\* vehicles to one station in the same tick, and for a station that stays
\* above its capacity while a trace ends (vehicles that start late)
ScanFleets ==
    {Rep(b, "T") \o tail : b \in {0, MaxConvoy},
                            tail \in {<<"SkipDir">>, <<"SkipFull">>, <<"SkipFull", "SkipDir">>}}
        \cup {Rep(MaxConvoy - 1, "L") \o <<"UTurn", "Slow">>,
              Rep(MaxConvoy, "LB") \o <<"L">>,
              <<"Loop", "Slow", "T">>,
              Rep(MaxConvoy + 1, "Late") \o <<"Ls">>}

Fleets == {Rep(a, "L") \o Rep(b, "T") \o tail :
              a \in ConvoySizes, b \in {0, MaxConvoy}, tail \in Tails}
              \cup ScanFleets

\* fleets of one or two vehicles, the faulty traces among them
ReplayIds == TraceIds \cup FaultyIds
ReplayFleets == {<<a>> : a \in ReplayIds} \cup {<<a, b>> : a \in ReplayIds, b \in ReplayIds}

VARIABLES
    fleet,        \* TRACES.keys(): the trace id of each spawned vehicle
    pc,           \* position in the schedule: 0..3 a station, 4.. a vehicle
    tick,         \* completed Model.step() calls
    failed,       \* an exception left VehicleAgent.step (the run is over)
    served,       \* station -> VECStationAgent.vehicles
    station,      \* vehicle -> VehicleAgent.station
    vpos,         \* vehicle -> VehicleAgent.pos
    angle,        \* vehicle -> VehicleAgent.angle
    active,       \* vehicle -> VehicleAgent.active
    ts,           \* vehicle -> VehicleAgent.ts
    trace_i,      \* vehicle -> VehicleAgent.trace_i
    handovers,    \* history: vehicle -> number of changes of its station
    spawnStation, \* history: vehicle -> its station right after spawn
    stationSteps, \* history: station -> number of calls of its step()
    deferrals,    \* history: vehicle -> station steps that found it exiting and kept it
    snap,         \* history: served, vpos, angle at the start of the tick
    query,        \* direction query: <<pos, heading, target>>
    answer        \* direction query: "none" or the value returned

vars == <<fleet, pc, tick, failed, served, station, vpos, angle, active, ts,
          trace_i, handovers, spawnStation, stationSteps, deferrals, snap, query,
          answer>>

simVars == <<fleet, pc, tick, failed, served, station, vpos, angle, active, ts,
             trace_i, handovers, spawnStation, stationSteps, deferrals, snap>>

NumVehicles == Len(fleet)
Vehicles == 1 .. NumVehicles
TraceOf(v) == TRACES[fleet[v]]

(***************************************************************************)
(* distance, is_moving_towards                                             *)
(***************************************************************************)
Dist2(p1, p2) == (p1[1] - p2[1]) * (p1[1] - p2[1]) + (p1[2] - p2[2]) * (p1[2] - p2[2])

Headings == {0, 45, 90, 135, 136, 180, 225, 270, 314, 315}

\* (math.cos(rad), math.sin(rad)) as doubles: c = cM + cm, s = sM + sm
Dir(a) ==
    CASE a = 0   -> [cM |-> 1, cm |-> 0, sM |-> 0, sm |-> 0]
      [] a = 45  -> [cM |-> 1, cm |-> 1, sM |-> 1, sm |-> 0]
      [] a = 90  -> [cM |-> 0, cm |-> 1, sM |-> 1, sm |-> 0]
      [] a = 135 -> [cM |-> -1, cm |-> 0, sM |-> 1, sm |-> 1]
      [] a = 136 -> [cM |-> -7193, cm |-> 0, sM |-> 6947, sm |-> 0]
      [] a = 180 -> [cM |-> -1, cm |-> 0, sM |-> 0, sm |-> 2]
      [] a = 225 -> [cM |-> -1, cm |-> -2, sM |-> -1, sm |-> 0]
      [] a = 270 -> [cM |-> 0, cm |-> -3, sM |-> -1, sm |-> 0]
      [] a = 314 -> [cM |-> 6947, cm |-> 0, sM |-> -7193, sm |-> 0]
      [] a = 315 -> [cM |-> 1, cm |-> -1, sM |-> -1, sm |-> -2]

IsMovingTowards(vehicle_pos, vehicle_orientation, station_pos) ==
    LET vehicle_dir == Dir(vehicle_orientation)
        dx == station_pos[1] - vehicle_pos[1]
        dy == station_pos[2] - vehicle_pos[2]
        major == vehicle_dir.cM * dx + vehicle_dir.sM * dy
        minor == vehicle_dir.cm * dx + vehicle_dir.sm * dy
    IN  IF major # 0 THEN major > 0 ELSE minor > 0

(***************************************************************************)
(* VECModel.__init__: the stations and the ring                            *)
(***************************************************************************)
\* the waypoints and the station positions of VECModel(width, height, _)
WaypointsIn(width, height) ==
    << <<waypoints_pos_offset, waypoints_pos_offset>>,
       <<width - waypoints_pos_offset, waypoints_pos_offset>>,
       <<width - waypoints_pos_offset, height - waypoints_pos_offset>>,
       <<waypoints_pos_offset, height - waypoints_pos_offset>> >>

StationPosIn(width, height, s) ==
    LET waypoints == WaypointsIn(width, height)
    IN  CASE s = 0 -> <<waypoints[1][1] + station_pos_offset, waypoints[1][2] + station_pos_offset>>
          [] s = 1 -> <<waypoints[2][1] - station_pos_offset, waypoints[2][2] + station_pos_offset>>
          [] s = 2 -> <<waypoints[3][1] - station_pos_offset, waypoints[3][2] - station_pos_offset>>
          [] s = 3 -> <<waypoints[4][1] + station_pos_offset, waypoints[4][2] - station_pos_offset>>

Waypoints == WaypointsIn(Width, Height)

StationPos(s) == StationPosIn(Width, Height, s)

\* a wiring to the successor and to the station across the ring
NeighborsAcross(s) == << (s + 1) % NumStations, (s + 2) % NumStations >>

Neighbors(s) == << (s + 1) % NumStations, (s + 3) % NumStations >>

Load(sv, s) == Len(sv[s])


(***************************************************************************)
(* VECStationAgent                                                         *)
(***************************************************************************)
\* the exit test with the threshold left out: distance > self.range
IsVehicleExitingAtRange(s, v) ==
    /\ Dist2(StationPos(s), vpos[v]) > StationRange * StationRange
    /\ ~IsMovingTowards(vpos[v], angle[v], StationPos(s))

\* the exit test with the direction left out
IsVehicleExitingFarOnly(s, v) ==
    100 * 100 * Dist2(StationPos(s), vpos[v])
        > (StationRange * DistanceThresholdPct) * (StationRange * DistanceThresholdPct)

\* distance(self.pos, vehicle.pos) > self.range * self.distance_threshold
\*     and not is_moving_towards(vehicle.pos, vehicle.angle, self.pos)
IsVehicleExiting(s, v) ==
    /\ 100 * 100 * Dist2(StationPos(s), vpos[v])
          > (StationRange * DistanceThresholdPct) * (StationRange * DistanceThresholdPct)
    /\ ~IsMovingTowards(vpos[v], angle[v], StationPos(s))

\* ratio(a) < ratio(b), ratio(x) = distance(x.pos, p) / x.range
RatioLess(a, b, p) ==
    Dist2(StationPos(a), p) * (StationRange * StationRange)
        < Dist2(StationPos(b), p) * (StationRange * StationRange)

\* ratio > 1
RatioAboveOne(nb, p) == Dist2(StationPos(nb), p) > StationRange * StationRange

\* one step of sorted(): x goes behind every element whose key is not greater
InsertByRatio(sq, x, p) ==
    LET k == Cardinality({i \in 1 .. Len(sq) : ~RatioLess(x, sq[i], p)})
    IN  SubSeq(sq, 1, k) \o <<x>> \o SubSeq(sq, k + 1, Len(sq))

\* a sort that puts x before the elements of equal key (not stable)
InsertByRatioUnstable(sq, x, p) ==
    LET k == Cardinality({i \in 1 .. Len(sq) : RatioLess(sq[i], x, p)})
    IN  SubSeq(sq, 1, k) \o <<x>> \o SubSeq(sq, k + 1, Len(sq))

RECURSIVE SortedNeighborsUnstable(_, _)
SortedNeighborsUnstable(nbs, p) ==
    IF nbs = <<>> THEN <<>>
    ELSE InsertByRatioUnstable(SortedNeighborsUnstable(SubSeq(nbs, 1, Len(nbs) - 1), p),
                               nbs[Len(nbs)], p)

\* sorted(neighbors, key=lambda x: x[0]): ascending ratio, stable
RECURSIVE SortedNeighbors(_, _)
SortedNeighbors(nbs, p) ==
    IF nbs = <<>> THEN <<>>
    ELSE InsertByRatio(SortedNeighbors(SubSeq(nbs, 1, Len(nbs) - 1), p),
                       nbs[Len(nbs)], p)

\* list.remove(x): the first occurrence
RemoveFirst(sq, x) ==
    LET k == CHOOSE i \in 1 .. Len(sq) : sq[i] = x /\ \A j \in 1 .. (i - 1) : sq[j] # x
    IN  SubSeq(sq, 1, k - 1) \o SubSeq(sq, k + 1, Len(sq))

\* faulty variants of a handover: one of its three assignments left out
HandoverNoRepoint(s, nb, v, n) ==
    [n EXCEPT !.served = [n.served EXCEPT ![s] = RemoveFirst(@, v), ![nb] = Append(@, v)],
              !.handovers = [n.handovers EXCEPT ![v] = @ + 1]]

HandoverNoRemove(s, nb, v, n) ==
    [n EXCEPT !.served = [n.served EXCEPT ![nb] = Append(@, v)],
              !.station = [n.station EXCEPT ![v] = nb],
              !.handovers = [n.handovers EXCEPT ![v] = @ + 1]]

HandoverNoAppend(s, nb, v, n) ==
    [n EXCEPT !.served = [n.served EXCEPT ![s] = RemoveFirst(@, v)],
              !.station = [n.station EXCEPT ![v] = nb],
              !.handovers = [n.handovers EXCEPT ![v] = @ + 1]]

\* self.vehicles.remove(vehicle); neighbor.vehicles.append(vehicle);
\* vehicle.station = neighbor
Handover(s, nb, v, n) ==
    [n EXCEPT !.served = [n.served EXCEPT ![s] = RemoveFirst(@, v), ![nb] = Append(@, v)],
              !.station = [n.station EXCEPT ![v] = nb],
              !.handovers = [n.handovers EXCEPT ![v] = @ + 1]]

\* the acceptance test without the direction
AcceptsAnyDirection(nb, v, n) == Load(n.served, nb) < StationCapacity

\* the acceptance test without the load
AcceptsAnyLoad(nb, v, n) == IsMovingTowards(vpos[v], angle[v], StationPos(nb))

\* neighbor.load <= neighbor.capacity instead of <
AcceptsFull(nb, v, n) ==
    /\ Load(n.served, nb) <= StationCapacity
    /\ IsMovingTowards(vpos[v], angle[v], StationPos(nb))

\* neighbor.load < neighbor.capacity and is_moving_towards(...)
Accepts(nb, v, n) ==
    /\ Load(n.served, nb) < StationCapacity
    /\ IsMovingTowards(vpos[v], angle[v], StationPos(nb))

\* the scan ended (break) by the first candidate that is not accepted
ScanNeighborsFirstOnly(sorted, i, s, v, n) ==
    IF i > Len(sorted) THEN n
    ELSE IF RatioAboveOne(sorted[i], vpos[v]) THEN n
    ELSE IF Accepts(sorted[i], v, n) THEN Handover(s, sorted[i], v, n)
    ELSE n

\* for ratio, neighbor in sorted_neighbors: ...
RECURSIVE ScanNeighbors(_, _, _, _, _)
ScanNeighbors(sorted, i, s, v, n) ==
    IF i > Len(sorted) THEN n
    ELSE IF RatioAboveOne(sorted[i], vpos[v]) THEN n
    ELSE IF Accepts(sorted[i], v, n) THEN Handover(s, sorted[i], v, n)
    ELSE ScanNeighbors(sorted, i + 1, s, v, n)

\* an attempt that drops the vehicle when no neighbour takes it
AttemptHandoverOrDrop(s, v, n) ==
    LET neighbors == SelectSeq(Neighbors(s), LAMBDA x : x # s)
        r == ScanNeighbors(SortedNeighbors(neighbors, vpos[v]), 1, s, v, n)
    IN  IF r.station[v] = s
        THEN [r EXCEPT !.served = [r.served EXCEPT ![s] = RemoveFirst(@, v)]]
        ELSE r

AttemptHandover(s, v, n) ==
    LET neighbors == SelectSeq(Neighbors(s), LAMBDA x : x # s)
    IN  ScanNeighbors(SortedNeighbors(neighbors, vpos[v]), 1, s, v, n)

\* history: attempt_handover returned with the vehicle still served by s
CountDeferral(s, v, n) ==
    IF n.station[v] = s THEN [n EXCEPT !.deferrals = [n.deferrals EXCEPT ![v] = @ + 1]]
    ELSE n

\* the body of the loop of step() for one vehicle
VisitVehicle(s, v, n) ==
    IF IsVehicleExiting(s, v) THEN CountDeferral(s, v, AttemptHandover(s, v, n)) ELSE n

\* for vehicle in self.vehicles: the loop runs over the list it changes
RECURSIVE StepVehiclesLive(_, _, _)
StepVehiclesLive(s, snapshot, n) ==
    IF n.i > Len(n.served[s]) THEN n
    ELSE StepVehiclesLive(s, snapshot,
                          [VisitVehicle(s, n.served[s][n.i], n) EXCEPT !.i = @ + 1])

\* for vehicle in list(self.vehicles): ...   (n.i is the loop's position)
RECURSIVE StepVehicles(_, _, _)
StepVehicles(s, snapshot, n) ==
    IF n.i > Len(snapshot) THEN n
    ELSE StepVehicles(s, snapshot,
                      [VisitVehicle(s, snapshot[n.i], n) EXCEPT !.i = @ + 1])

(***************************************************************************)
(* BaseScheduler: the agents in the order they were added                  *)
(***************************************************************************)
NumAgents == NumStations + NumVehicles
\* a schedule that leaves out the agent registered last
LastInTickEarly(p) == p + 2 >= NumAgents
LastInTick(p) == p + 1 >= NumAgents
\* a registration order with the vehicles added right after the first station
NextPcVehiclesEarly(p) ==
    IF NumAgents = NumStations THEN (IF p + 1 >= NumAgents THEN 0 ELSE p + 1)
    ELSE IF p = 0 THEN NumStations
    ELSE IF p = NumAgents - 1 THEN 1
    ELSE IF p = NumStations - 1 THEN 0
    ELSE p + 1
NextPc(p) == IF LastInTick(p) THEN 0 ELSE p + 1
NextTick(p) == IF LastInTick(p) THEN tick + 1 ELSE tick
Running == ~failed /\ tick < MaxTick /\ answer = "none" /\ query = <<>>

\* a step whose loop runs over the served vehicles in an order that is not
\* fixed (front to back or back to front)
ReverseSeq(sq) == [i \in 1 .. Len(sq) |-> sq[Len(sq) + 1 - i]]

StationStepEitherOrder(s) ==
    /\ Running
    /\ pc = s
    /\ \E order \in {served[s], ReverseSeq(served[s])} :
          LET n == StepVehicles(s, order,
                                [served |-> served, station |-> station,
                                 handovers |-> handovers, deferrals |-> deferrals,
                                 i |-> 1])
          IN  /\ served' = n.served
              /\ station' = n.station
              /\ handovers' = n.handovers
              /\ deferrals' = n.deferrals
    /\ snap' = IF s = 0
               THEN [served |-> served, station |-> station,
                     vpos |-> vpos, angle |-> angle, active |-> active]
               ELSE snap
    /\ stationSteps' = [stationSteps EXCEPT ![s] = @ + 1]
    /\ pc' = NextPc(pc)
    /\ tick' = NextTick(pc)
    /\ UNCHANGED <<fleet, failed, vpos, angle, active, ts, trace_i, spawnStation,
                   query, answer>>

StationStep(s) ==
    /\ Running
    /\ pc = s
    /\ LET n == StepVehicles(s, served[s],
                             [served |-> served, station |-> station,
                              handovers |-> handovers, deferrals |-> deferrals,
                              i |-> 1])
       IN  /\ served' = n.served
           /\ station' = n.station
           /\ handovers' = n.handovers
           /\ deferrals' = n.deferrals
    /\ snap' = IF s = 0
               THEN [served |-> served, station |-> station,
                     vpos |-> vpos, angle |-> angle, active |-> active]
               ELSE snap
    /\ stationSteps' = [stationSteps EXCEPT ![s] = @ + 1]
    /\ pc' = NextPc(pc)
    /\ tick' = NextTick(pc)
    /\ UNCHANGED <<fleet, failed, vpos, angle, active, ts, trace_i, spawnStation,
                   query, answer>>

(***************************************************************************)
(* VehicleAgent                                                            *)
(***************************************************************************)
\* ContinuousSpace(width, height, False).out_of_bounds
OutOfBounds(p) == p[1] < 0 \/ p[1] >= Width \/ p[2] < 0 \/ p[2] >= Height

\* do_step(ts) without "if state['timestep_time'] == ts: return"
DoStepNoHold(v, t) ==
    LET samples == TraceOf(v).samples
        i == trace_i[v]
        same == [active |-> TRUE, trace_i |-> i, pos |-> vpos[v],
                 angle |-> angle[v], raised |-> FALSE]
    IN  IF i + 1 > Len(samples) THEN [same EXCEPT !.raised = TRUE]
        ELSE IF samples[i + 1][1] # t /\ samples[i + 1][1] # t - 1
             THEN [same EXCEPT !.raised = TRUE]
        ELSE IF i + 2 > Len(samples)
             THEN [same EXCEPT !.trace_i = i + 1, !.raised = TRUE]
        ELSE IF samples[i + 2][1] > t \/ samples[i + 2][1] < t
             THEN [same EXCEPT !.trace_i = i + 1, !.raised = TRUE]
        ELSE [active  |-> TRUE,
              trace_i |-> i + 1,
              pos     |-> <<samples[i + 2][2], samples[i + 2][3]>>,
              angle   |-> samples[i + 2][4],
              raised  |-> OutOfBounds(<<samples[i + 2][2], samples[i + 2][3]>>)]

\* do_step(ts): the fields it leaves behind and whether it raised
DoStep(v, t) ==
    LET samples == TraceOf(v).samples
        i == trace_i[v]
        same == [active |-> TRUE, trace_i |-> i, pos |-> vpos[v],
                 angle |-> angle[v], raised |-> FALSE]
    IN  IF i + 1 > Len(samples) THEN [same EXCEPT !.raised = TRUE]
        ELSE IF samples[i + 1][1] # t /\ samples[i + 1][1] # t - 1
             THEN [same EXCEPT !.raised = TRUE]
        ELSE IF samples[i + 1][1] = t THEN same
        ELSE IF i + 2 > Len(samples)
             THEN [same EXCEPT !.trace_i = i + 1, !.raised = TRUE]
        ELSE IF samples[i + 2][1] > t \/ samples[i + 2][1] < t
             THEN [same EXCEPT !.trace_i = i + 1, !.raised = TRUE]
        ELSE [active  |-> TRUE,
              trace_i |-> i + 1,
              pos     |-> <<samples[i + 2][2], samples[i + 2][3]>>,
              angle   |-> samples[i + 2][4],
              raised  |-> OutOfBounds(<<samples[i + 2][2], samples[i + 2][3]>>)]

\* the external time of a time step of 2000 ms
ExternalTsCoarse(t) == (t * 4 * TIME_STEP_MS) \div MsPerSecond

\* int(self.ts * TIME_STEP_S)
ExternalTs(t) == (t * TIME_STEP_MS) \div MsPerSecond

\* step() without the last two lines: the vehicle never goes inactive
VehicleAfterStepNoEnd(v) ==
    LET external_ts == ExternalTs(ts[v] + 1)
        tr == TraceOf(v)
    IN  IF tr.first_ts <= external_ts /\ external_ts <= tr.last_ts
        THEN DoStep(v, external_ts)
        ELSE [active |-> active[v], trace_i |-> trace_i[v], pos |-> vpos[v],
              angle |-> angle[v], raised |-> FALSE]

\* step(): the vehicle's fields after it and whether it raised
VehicleAfterStep(v) ==
    LET external_ts == ExternalTs(ts[v] + 1)
        tr == TraceOf(v)
        r == IF tr.first_ts <= external_ts /\ external_ts <= tr.last_ts
             THEN DoStep(v, external_ts)
             ELSE [active |-> active[v], trace_i |-> trace_i[v], pos |-> vpos[v],
                   angle |-> angle[v], raised |-> FALSE]
    IN  IF ~r.raised /\ external_ts > tr.last_ts
        THEN [r EXCEPT !.active = FALSE]
        ELSE r

\* a vehicle step that takes a vehicle whose trace has ended out of its
\* station's list
VehicleStepLeaving(v) ==
    /\ Running
    /\ pc = NumStations + v - 1
    /\ LET r == VehicleAfterStep(v)
       IN  /\ ts' = [ts EXCEPT ![v] = @ + 1]
           /\ active' = [active EXCEPT ![v] = r.active]
           /\ trace_i' = [trace_i EXCEPT ![v] = r.trace_i]
           /\ vpos' = [vpos EXCEPT ![v] = r.pos]
           /\ angle' = [angle EXCEPT ![v] = r.angle]
           /\ failed' = r.raised
           /\ pc' = IF r.raised THEN pc ELSE NextPc(pc)
           /\ tick' = IF r.raised THEN tick ELSE NextTick(pc)
           /\ served' = IF r.active THEN served
                        ELSE [served EXCEPT ![station[v]] = SelectSeq(@, LAMBDA x : x # v)]
    /\ UNCHANGED <<fleet, station, handovers, spawnStation, stationSteps,
                   deferrals, snap, query, answer>>

VehicleStep(v) ==
    /\ Running
    /\ pc = NumStations + v - 1
    /\ LET r == VehicleAfterStep(v)
       IN  /\ ts' = [ts EXCEPT ![v] = @ + 1]
           /\ active' = [active EXCEPT ![v] = r.active]
           /\ trace_i' = [trace_i EXCEPT ![v] = r.trace_i]
           /\ vpos' = [vpos EXCEPT ![v] = r.pos]
           /\ angle' = [angle EXCEPT ![v] = r.angle]
           /\ failed' = r.raised
           /\ pc' = IF r.raised THEN pc ELSE NextPc(pc)
           /\ tick' = IF r.raised THEN tick ELSE NextTick(pc)
    /\ UNCHANGED <<fleet, served, station, handovers, spawnStation, stationSteps,
                   deferrals, snap, query, answer>>

(***************************************************************************)
(* VECModel.__init__: spawn_vehicle                                        *)
(***************************************************************************)
\* the loop variable pos of the station loop, as spawn_vehicle reads it
SpawnPosIn(width, height) == StationPosIn(width, height, NumStations - 1)

SpawnPos == SpawnPosIn(Width, Height)

\* min() that keeps the last of the nearest stations
NearestStationInLast(width, height, p) ==
    CHOOSE s \in Stations :
        /\ \A o \in Stations :
              Dist2(StationPosIn(width, height, s), p) <= Dist2(StationPosIn(width, height, o), p)
        /\ \A o \in Stations :
              o > s => Dist2(StationPosIn(width, height, o), p)
                          > Dist2(StationPosIn(width, height, s), p)

\* min(self.vec_stations, key=lambda x: distance(x.pos, vehicle.pos)): the first
NearestStationIn(width, height, p) ==
    CHOOSE s \in Stations :
        /\ \A o \in Stations :
              Dist2(StationPosIn(width, height, s), p) <= Dist2(StationPosIn(width, height, o), p)
        /\ \A o \in Stations :
              o < s => Dist2(StationPosIn(width, height, o), p)
                          > Dist2(StationPosIn(width, height, s), p)

NearestStation(p) == NearestStationIn(Width, Height, p)

\* active = True from the start
ActiveAtSpawnAlways(id) == TRUE

\* VehicleAgent.__init__: do_step(0) when the trace starts at 0
ActiveAtSpawn(id) == TRACES[id].first_ts = 0

\* the vehicles of VECModel(width, height, _) after the loop over TRACES.keys()
SpawnAll(width, height, f) ==
    LET pos == SpawnPosIn(width, height)
        nearest == NearestStationIn(width, height, pos)
    IN  [vpos    |-> [v \in 1 .. Len(f) |-> pos],
         station |-> [v \in 1 .. Len(f) |-> nearest],
         served  |-> [s \in Stations |->
                         SelectSeq([v \in 1 .. Len(f) |-> v], LAMBDA v : nearest = s)]]

SimInit(f) ==
    /\ fleet = f
    /\ pc = 0
    /\ tick = 0
    /\ failed = FALSE
    /\ vpos = SpawnAll(Width, Height, f).vpos
    /\ angle = [v \in 1 .. Len(f) |-> InitialAngle]
    /\ active = [v \in 1 .. Len(f) |-> ActiveAtSpawn(f[v])]
    /\ ts = [v \in 1 .. Len(f) |-> 0]
    /\ trace_i = [v \in 1 .. Len(f) |-> 0]
    /\ station = SpawnAll(Width, Height, f).station
    /\ served = SpawnAll(Width, Height, f).served
    /\ handovers = [v \in 1 .. Len(f) |-> 0]
    /\ spawnStation = SpawnAll(Width, Height, f).station
    /\ stationSteps = [s \in Stations |-> 0]
    /\ deferrals = [v \in 1 .. Len(f) |-> 0]
    /\ snap = [served |-> served, station |-> station,
               vpos |-> vpos, angle |-> angle, active |-> active]

Init ==
    /\ \E f \in Fleets : SimInit(f)
    /\ query = <<>>
    /\ answer = "none"

Next ==
    \/ \E s \in Stations : StationStep(s)
    \/ \E v \in Vehicles : VehicleStep(v)

Spec == Init /\ [][Next]_vars

(***************************************************************************)
(* The replay on its own: one or two vehicles, traces that keep the feed's *)
(* contract and traces that break it.                                      *)
(***************************************************************************)
ReplayInit ==
    /\ \E f \in ReplayFleets : SimInit(f)
    /\ query = <<>>
    /\ answer = "none"

SpecReplay == ReplayInit /\ [][Next]_vars

(***************************************************************************)
(* The construction on its own: a world size and a number of traces are    *)
(* drawn, then VECModel(width, height, _) spawns the vehicles.             *)
(***************************************************************************)
MinWorld == 2 * (waypoints_pos_offset + station_pos_offset)
WorldSizes == MinWorld .. (MinWorld + MaxSpread)

Construct ==
    /\ query # <<>>
    /\ answer = "none"
    /\ answer' = "built"
    /\ fleet' = Rep(query[3], "L")
    /\ vpos' = SpawnAll(query[1], query[2], fleet').vpos
    /\ station' = SpawnAll(query[1], query[2], fleet').station
    /\ served' = SpawnAll(query[1], query[2], fleet').served
    /\ spawnStation' = station'
    /\ angle' = [v \in 1 .. query[3] |-> InitialAngle]
    /\ active' = [v \in 1 .. query[3] |-> ActiveAtSpawn(fleet'[v])]
    /\ ts' = [v \in 1 .. query[3] |-> 0]
    /\ trace_i' = [v \in 1 .. query[3] |-> 0]
    /\ handovers' = [v \in 1 .. query[3] |-> 0]
    /\ deferrals' = [v \in 1 .. query[3] |-> 0]
    /\ snap' = [served |-> served', station |-> station',
                vpos |-> vpos', angle |-> angle', active |-> active']
    /\ UNCHANGED <<pc, tick, failed, stationSteps, query>>

SpawnInit ==
    /\ SimInit(<<>>)
    /\ query \in {<<w, h, k>> : w \in WorldSizes, h \in WorldSizes, k \in 0 .. (MaxConvoy + 1)}
    /\ answer = "none"

SpawnNext == Construct

SpecSpawn == SpawnInit /\ [][SpawnNext]_vars


(***************************************************************************)
(* The direction primitive on its own: a query is drawn, then answered.    *)
(***************************************************************************)
Grid == {<<x, y>> : x \in (0 - MaxCoord) .. MaxCoord, y \in (0 - MaxCoord) .. MaxCoord}

Ask ==
    /\ query # <<>>
    /\ answer = "none"
    /\ answer' = IF IsMovingTowards(query[1], query[2], query[3]) THEN "true" ELSE "false"
    /\ UNCHANGED <<query, fleet, pc, tick, failed, served, station, vpos, angle,
                   active, ts, trace_i, handovers, spawnStation, stationSteps,
                   deferrals, snap>>

DirInit ==
    /\ SimInit(<<>>)
    /\ query \in {<<p, h, t>> : p \in Grid, h \in Headings, t \in Grid}
    /\ answer = "none"

DirNext == Ask

SpecDir == DirInit /\ [][DirNext]_vars

(***************************************************************************)
(* Vocabulary of the properties                                            *)
(***************************************************************************)
InList(sq, x) == \E i \in 1 .. Len(sq) : sq[i] = x
Count(sq, x) == Cardinality({i \in 1 .. Len(sq) : sq[i] = x})
IndexIn(sq, x) == CHOOSE i \in 1 .. Len(sq) : sq[i] = x

RECURSIVE SumLoad(_, _)
SumLoad(sv, k) == IF k < 0 THEN 0 ELSE Len(sv[k]) + SumLoad(sv, k - 1)
TotalLoad == SumLoad(served, NumStations - 1)

RECURSIVE SumCount(_, _, _)
SumCount(sv, x, k) == IF k < 0 THEN 0 ELSE Count(sv[k], x) + SumCount(sv, x, k - 1)
Occurrences(v) == SumCount(served, v, NumStations - 1)

TickDone == pc = 0 /\ tick >= 1
Ended(v) == ExternalTs(ts[v]) > TraceOf(v).last_ts
NotStarted(v) == ExternalTs(ts[v]) < TraceOf(v).first_ts
InRange(t, p) == Dist2(StationPos(t), p) <= StationRange * StationRange
EqualRatio(a, b, p) == ~RatioLess(a, b, p) /\ ~RatioLess(b, a, p)
InWindow(v) ==
    /\ TraceOf(v).first_ts <= ExternalTs(ts[v])
    /\ ExternalTs(ts[v]) <= TraceOf(v).last_ts
\* the step of vehicle v raised (the schedule stops at the agent that raised)
FailedAt(v) == failed /\ pc = NumStations + v - 1
\* the external time of tick counter t lies within the trace of v
WindowAt(v, t) ==
    /\ TraceOf(v).first_ts <= ExternalTs(t)
    /\ ExternalTs(t) <= TraceOf(v).last_ts
\* distance(s, p) > 0.7 x range, on the squares: d^2 > 0.49 x range^2
BeyondThreshold(s, p) == 100 * Dist2(StationPos(s), p) > 49 * StationRange * StationRange
\* neighbour t of s is within its range of v, v moves toward t, t is below capacity
OpenNeighbour(s, v, t) ==
    /\ InList(Neighbors(s), t)
    /\ InRange(t, vpos[v])
    /\ IsMovingTowards(vpos[v], angle[v], StationPos(t))
    /\ Len(served[t]) < StationCapacity
\* the load of t when the step of s reaches v: its load before the step plus
\* the vehicles ahead of v in the list of s that the step hands to t
LoadWhenVisited(s, v, t) ==
    Len(served[t])
        + Cardinality({i \in 1 .. (IndexIn(served[s], v) - 1) : station'[served[s][i]] = t})
\* o comes before t in the ascending-ratio order of the neighbours of s
Precedes(s, o, t, p) ==
    /\ o # t
    /\ InList(Neighbors(s), o)
    /\ InList(Neighbors(s), t)
    /\ \/ RatioLess(o, t, p)
       \/ EqualRatio(o, t, p) /\ IndexIn(Neighbors(s), o) < IndexIn(Neighbors(s), t)
\* t would accept v when the step of s reaches v
Takes(s, v, t) ==
    /\ LoadWhenVisited(s, v, t) < StationCapacity
    /\ IsMovingTowards(vpos[v], angle[v], StationPos(t))
\* the load of s right after construction
InitialLoad(s) == Cardinality({v \in Vehicles : spawnStation[v] = s})
Max(a, b) == IF a >= b THEN a ELSE b
\* one sample per integer timestep, without gap or repetition
Contiguous(tr) ==
    \A i \in 1 .. (Len(tr.samples) - 1) : tr.samples[i + 1][1] = tr.samples[i][1] + 1
\* the timestep of the sample under the cursor
CursorTs(v) == TraceOf(v).samples[trace_i[v] + 1][1]
\* the position recorded in the first sample of the trace of v
FirstSamplePos(v) == <<TraceOf(v).samples[1][2], TraceOf(v).samples[1][3]>>
\* the sample of timestep e in the trace of v (one sample per timestep)
SampleAt(v, e) == TraceOf(v).samples[e - TraceOf(v).first_ts + 1]
\* the ring of the stations in creation order
RingSucc(s) == IF s = NumStations - 1 THEN 0 ELSE s + 1
RingPred(s) == IF s = 0 THEN NumStations - 1 ELSE s - 1
Opposite(s) == RingSucc(RingSucc(s))
\* p lies within [0, width] x [0, height]
InWorld(p) == 0 <= p[1] /\ p[1] <= Width /\ 0 <= p[2] /\ p[2] <= Height
\* what a run shows: served lists, station references, the vehicles' fields
Observable == <<served, station, vpos, angle, trace_i, active>>
\* the value of Observable after the step of the agent whose turn it is
StepOutcome ==
    IF pc < NumStations
    THEN LET n == StepVehicles(pc, served[pc],
                               [served |-> served, station |-> station,
                                handovers |-> handovers, deferrals |-> deferrals,
                                i |-> 1])
         IN  <<n.served, n.station, vpos, angle, trace_i, active>>
    ELSE LET v == pc - NumStations + 1
             r == VehicleAfterStep(v)
         IN  <<served, station,
               [vpos EXCEPT ![v] = r.pos],
               [angle EXCEPT ![v] = r.angle],
               [trace_i EXCEPT ![v] = r.trace_i],
               [active EXCEPT ![v] = r.active]>>
\* agent number a has taken its step of the current Model.step()
Stepped(a) == a < pc \/ (failed /\ a = pc)

\* the heading as an exact vector (the unit vector up to a positive factor)
MathDir(a) == <<Dir(a).cM, Dir(a).sM>>
ExactDot(p, a, t) == MathDir(a)[1] * (t[1] - p[1]) + MathDir(a)[2] * (t[2] - p[2])
ExactCross(p, a, t) == MathDir(a)[1] * (t[2] - p[2]) - MathDir(a)[2] * (t[1] - p[1])

\* p is at 0.71 x range from station s (to two decimals), heading a straight away
At071(s, p) ==
    /\ Dist2(StationPos(s), p) <= StationRange * StationRange
    /\ 200 * 200 * Dist2(StationPos(s), p) >= 141 * 141 * StationRange * StationRange
    /\ 200 * 200 * Dist2(StationPos(s), p) < 143 * 143 * StationRange * StationRange
StraightAway(s, p, a) ==
    /\ ExactCross(StationPos(s), a, p) = 0
    /\ ExactDot(StationPos(s), a, p) > 0

(***************************************************************************)
(* C1.  In every state between two agent steps (and after construction),   *)
(* every vehicle in a station's served list has that station as its        *)
(* station reference.                                                      *)
(***************************************************************************)
C1_Bidirectional ==
    \A s \in Stations : \A i \in 1 .. Len(served[s]) : station[served[s][i]] = s

C1_Witness ==
    \E v \in Vehicles :
        /\ handovers[v] >= 1
        /\ station[v] # spawnStation[v]
        /\ InList(served[station[v]], v)

(***************************************************************************)
(* C2 as stated.  After every tick the sum of the stations' loads equals   *)
(* the number of vehicles whose active flag is true.                       *)
(***************************************************************************)
C2_LoadEqualsActive ==
    TickDone => TotalLoad = Cardinality({v \in Vehicles : active[v]})

(***************************************************************************)
(* C2 amended.  In every state the sum of the stations' loads equals the   *)
(* number of spawned vehicles, active or not; the active ones are among    *)
(* them.                                                                   *)
(***************************************************************************)
C2_LoadEqualsSpawned ==
    /\ TotalLoad = NumVehicles
    /\ Cardinality({v \in Vehicles : active[v]}) <= TotalLoad

C2_Witness ==
    /\ TickDone
    /\ \E v \in Vehicles : Ended(v) /\ ~active[v] /\ handovers[v] >= 1
    /\ \E v \in Vehicles : NotStarted(v) /\ ~active[v]
    /\ \E v \in Vehicles : active[v]

(***************************************************************************)
(* C3.  In every state between two agent steps every spawned vehicle       *)
(* occurs exactly once in all served lists together, and it occurs in the  *)
(* list of the station its station reference names.                        *)
(***************************************************************************)
C3_ExactlyOneStation ==
    \A v \in Vehicles :
        /\ Occurrences(v) = 1
        /\ Count(served[station[v]], v) = 1

C3_Witness ==
    /\ pc \in 1 .. (NumStations - 1)
    /\ \E v \in Vehicles :
          /\ snap.station[v] # station[v]
          /\ ~InList(served[snap.station[v]], v)
          /\ InList(served[station[v]], v)

(***************************************************************************)
(* C4 as stated.  A single vehicle whose trace follows the rectangle once  *)
(* and returns to its start has, when its trace has ended, changed its     *)
(* station exactly 4 times and is served by the station it had at spawn.   *)
(***************************************************************************)
C4_ClosedLoop ==
    (fleet = <<"Loop">> /\ Ended(1) /\ ~active[1])
        => (handovers[1] = 4 /\ station[1] = spawnStation[1])

(***************************************************************************)
(* C5 as stated.  A vehicle that at the start of a tick is at 0.71 x range *)
(* from its station s, heading straight away, while exactly one neighbour  *)
(* t of s has load below capacity with the vehicle moving toward it, is at *)
(* the end of the tick in t's served list with station reference t.        *)
(***************************************************************************)
C5_Premise(sv, po, an, s, v, t) ==
    /\ InList(sv[s], v)
    /\ At071(s, po[v])
    /\ StraightAway(s, po[v], an[v])
    /\ Len(sv[t]) < StationCapacity
    /\ IsMovingTowards(po[v], an[v], StationPos(t))
    /\ \A o \in Stations :
          (InList(Neighbors(s), o) /\ o # t)
              => ~(Len(sv[o]) < StationCapacity
                     /\ IsMovingTowards(po[v], an[v], StationPos(o)))

C5_HandedWithinTick ==
    TickDone =>
        \A s \in Stations : \A v \in Vehicles : \A t \in Stations :
            (InList(Neighbors(s), t) /\ C5_Premise(snap.served, snap.vpos, snap.angle, s, v, t))
                => (station[v] = t /\ InList(served[t], v))

(***************************************************************************)
(* C5 amended.  When station s steps while a vehicle it serves is at       *)
(* 0.71 x range from s heading straight away, exactly one neighbour t of s *)
(* is within its own range of the vehicle with the vehicle moving toward   *)
(* it, and t's load plus the number of vehicles ahead of the vehicle in    *)
(* s's served list is below t's capacity, then that step puts the vehicle  *)
(* in t's served list with station reference t; and no step moves a        *)
(* vehicle that is moving toward its station, so it is still there at the  *)
(* end of the tick.                                                        *)
(***************************************************************************)
C5_Qualifies(s, v, t) ==
    /\ InList(Neighbors(s), t)
    /\ InRange(t, vpos[v])
    /\ IsMovingTowards(vpos[v], angle[v], StationPos(t))

C5_HandedByStep ==
    [][ /\ \A s \in Stations : \A v \in Vehicles : \A t \in Stations :
              ( /\ pc = s
                /\ pc' # pc
                /\ InList(served[s], v)
                /\ At071(s, vpos[v])
                /\ StraightAway(s, vpos[v], angle[v])
                /\ C5_Qualifies(s, v, t)
                /\ \A o \in Stations : C5_Qualifies(s, v, o) => o = t
                /\ Len(served[t]) + IndexIn(served[s], v) - 1 < StationCapacity )
              => (station'[v] = t /\ InList(served'[t], v) /\ ~InList(served'[s], v))
        /\ \A v \in Vehicles :
              IsMovingTowards(vpos[v], angle[v], StationPos(station[v]))
                  => station'[v] = station[v] ]_vars

C5_Witness ==
    /\ TickDone
    /\ \E s \in Stations : \E v \in Vehicles : \E t \in Stations :
          /\ InList(Neighbors(s), t)
          /\ C5_Premise(snap.served, snap.vpos, snap.angle, s, v, t)
          /\ InRange(t, snap.vpos[v])
          /\ station[v] = t
          /\ InList(served[t], v)

(***************************************************************************)
(* C6.  A step of station s taken while a vehicle it serves is exiting and *)
(* every neighbour of s has load equal to capacity raises nothing and      *)
(* leaves every served list and every station reference as it was; this    *)
(* holds of every such step, tick after tick.                              *)
(***************************************************************************)
C6_AllFull(s) ==
    /\ \E v \in Vehicles : InList(served[s], v) /\ IsVehicleExiting(s, v)
    /\ \A t \in Stations : InList(Neighbors(s), t) => Len(served[t]) = StationCapacity

C6_Deferral ==
    [][ \A s \in Stations :
          (pc = s /\ C6_AllFull(s))
              => (served' = served /\ station' = station /\ failed' = FALSE) ]_vars

C6_Witness ==
    \E s \in Stations :
        /\ pc > s
        /\ tick >= 4
        /\ C6_AllFull(s)
        /\ \E v \in Vehicles :
              InList(served[s], v) /\ IsVehicleExiting(s, v) /\ snap.station[v] = s

(***************************************************************************)
(* C7.  When station s steps while an exiting vehicle has both neighbours  *)
(* of s at the same ratio, within range, with the vehicle moving toward    *)
(* both, and both with load below capacity when the vehicle is reached     *)
(* (load plus the number of vehicles ahead of it in s's list is below      *)
(* capacity), the vehicle goes to the neighbour that is first in s's       *)
(* neighbour list and not to the other.                                    *)
(***************************************************************************)
C7_Tie(s, v) ==
    /\ InList(served[s], v)
    /\ IsVehicleExiting(s, v)
    /\ EqualRatio(Neighbors(s)[1], Neighbors(s)[2], vpos[v])
    /\ \A i \in 1 .. 2 :
          /\ InRange(Neighbors(s)[i], vpos[v])
          /\ IsMovingTowards(vpos[v], angle[v], StationPos(Neighbors(s)[i]))
          /\ Len(served[Neighbors(s)[i]]) + IndexIn(served[s], v) - 1 < StationCapacity

C7_TieBreak ==
    [][ \A s \in Stations : \A v \in Vehicles :
          (pc = s /\ pc' # pc /\ C7_Tie(s, v))
              => /\ station'[v] = Neighbors(s)[1]
                 /\ InList(served'[Neighbors(s)[1]], v)
                 /\ ~InList(served'[Neighbors(s)[2]], v) ]_vars

C7_Witness ==
    \E v \in Vehicles :
        /\ handovers[v] = 1
        /\ station[v] = Neighbors(spawnStation[v])[1]
        /\ InList(served[station[v]], v)
        /\ EqualRatio(Neighbors(spawnStation[v])[1], Neighbors(spawnStation[v])[2], vpos[v])
        /\ InRange(Neighbors(spawnStation[v])[2], vpos[v])
        /\ IsMovingTowards(vpos[v], angle[v], StationPos(Neighbors(spawnStation[v])[2]))
        /\ Len(served[Neighbors(spawnStation[v])[2]]) < StationCapacity

(***************************************************************************)
(* C8 as stated.  is_moving_towards(pos, heading, target) returns true     *)
(* exactly when the dot product of the heading's unit vector with          *)
(* target - pos is strictly positive (so it returns false at 90 degrees    *)
(* off and when pos = target).                                             *)
(***************************************************************************)
C8_DotProductSign ==
    answer # "none"
        => ((answer = "true") <=> (ExactDot(query[1], query[2], query[3]) > 0))

(***************************************************************************)
(* C9 as stated.  Once a vehicle is inactive because its external time     *)
(* exceeded last_ts, no step changes its station reference.                *)
(***************************************************************************)
C9_InactiveStays ==
    [][ \A v \in Vehicles :
          (Ended(v) /\ ~active[v]) => station'[v] = station[v] ]_vars

(***************************************************************************)
(* C10.  Once a vehicle's external time has exceeded last_ts, its active   *)
(* flag is false and stays false, and no step changes its position,        *)
(* heading or trace cursor.                                                *)
(***************************************************************************)
C10_PermanentFreeze ==
    [][ \A v \in Vehicles :
          Ended(v) => /\ ~active[v]
                      /\ ~active'[v]
                      /\ vpos'[v] = vpos[v]
                      /\ angle'[v] = angle[v]
                      /\ trace_i'[v] = trace_i[v] ]_vars

C10_Witness ==
    \E v \in Vehicles :
        /\ ExternalTs(ts[v]) > TraceOf(v).last_ts + 1
        /\ ~active[v]
        /\ trace_i[v] = Len(TraceOf(v).samples) - 1
        /\ vpos[v] # SpawnPos

(***************************************************************************)
(* C11.  After construction and after every vehicle step that does not     *)
(* fail, a vehicle's active flag is true exactly when its external time    *)
(* (from its tick counter) lies within [first_ts, last_ts]: for traces     *)
(* that start at 0, traces that start later, and after the trace ended.    *)
(***************************************************************************)
C11_ActiveIffInWindow ==
    \A v \in Vehicles : FailedAt(v) \/ (active[v] <=> InWindow(v))

C11_Witness ==
    /\ tick >= 1
    /\ \E v \in Vehicles : TraceOf(v).first_ts > 0 /\ InWindow(v) /\ active[v]
    /\ \E w \in Vehicles : TraceOf(w).first_ts = 0 /\ Ended(w) /\ ~active[w]

(***************************************************************************)
(* C12.  In every state the agents that have taken their step of the       *)
(* current Model.step() are a prefix of the registration order (the four   *)
(* stations in creation order, then the vehicles in creation order), each  *)
(* has stepped exactly once in it, and after k complete calls every        *)
(* vehicle's tick counter (and every station's number of steps) is k.      *)
(***************************************************************************)
C12_SchedulerOrder ==
    /\ \A s \in Stations :
          stationSteps[s] = tick + (IF Stepped(s) THEN 1 ELSE 0)
    /\ \A v \in Vehicles :
          ts[v] = tick + (IF Stepped(NumStations + v - 1) THEN 1 ELSE 0)
    /\ pc = 0 => \A v \in Vehicles : ts[v] = tick

C12_Witness ==
    /\ NumVehicles = 2
    /\ pc = NumStations + 1
    /\ tick >= 2
    /\ \A s \in Stations : stationSteps[s] = tick + 1
    /\ ts[1] = tick + 1
    /\ ts[2] = tick

(***************************************************************************)
(* C13.  While the stations take their steps of a tick no vehicle's        *)
(* position or heading changes, and what every station step reads is the   *)
(* position and heading each vehicle had when the tick began (the end of   *)
(* the tick before); positions change only in the vehicle steps, which     *)
(* come after the last station step.                                       *)
(***************************************************************************)
C13_OneTickStale ==
    [][ /\ pc < NumStations
              => /\ vpos' = vpos /\ angle' = angle
                 /\ snap'.vpos = vpos /\ snap'.angle = angle
        /\ (vpos' # vpos \/ angle' # angle)
              => /\ pc >= NumStations
                 /\ \A s \in Stations : stationSteps[s] = tick + 1 ]_vars

C13_Witness ==
    /\ pc = NumStations
    /\ tick >= 2
    /\ \E v \in Vehicles :
          /\ station[v] # snap.station[v]
          /\ vpos[v] = snap.vpos[v]
          /\ vpos[v] # SpawnPos
          /\ ts[v] = tick

(***************************************************************************)
(* C14.  After construction every vehicle is in the served list of, and    *)
(* points at, a station at the smallest distance from the position the     *)
(* vehicle has at spawn time; of several stations at that distance it is   *)
(* the earliest in the station list; and this is so however many vehicles  *)
(* that station already serves (more than its capacity too).               *)
(***************************************************************************)
C14_NearestAtSpawn ==
    answer = "built" =>
        \A v \in Vehicles :
            /\ \A o \in Stations :
                  /\ Dist2(StationPosIn(query[1], query[2], station[v]), vpos[v])
                        <= Dist2(StationPosIn(query[1], query[2], o), vpos[v])
                  /\ Dist2(StationPosIn(query[1], query[2], station[v]), vpos[v])
                        = Dist2(StationPosIn(query[1], query[2], o), vpos[v])
                        => station[v] <= o
            /\ Count(served[station[v]], v) = 1
            /\ \A o \in Stations : o # station[v] => ~InList(served[o], v)

C14_Witness ==
    /\ answer = "built"
    /\ \E v \in Vehicles : \E o \in Stations :
          /\ o > station[v]
          /\ Dist2(StationPosIn(query[1], query[2], station[v]), vpos[v])
                = Dist2(StationPosIn(query[1], query[2], o), vpos[v])
          /\ station[v] > 0
          /\ Len(served[station[v]]) > StationCapacity

(***************************************************************************)
(* C15 as stated.  A vehicle whose trace has a gap or a repeated timestep  *)
(* between first_ts and last_ts does not get to the end of its trace       *)
(* without an error being raised; and in no state is the cursor on a       *)
(* sample whose timestep differs from the external time of the tick that   *)
(* consumed it.                                                            *)
(***************************************************************************)
C15_CursorInStep ==
    \A v \in Vehicles : (InWindow(v) /\ ~FailedAt(v)) => CursorTs(v) = ExternalTs(ts[v])

C15_DesyncFatal ==
    /\ \A v \in Vehicles : (~Contiguous(TraceOf(v)) /\ Ended(v)) => failed
    /\ C15_CursorInStep

(***************************************************************************)
(* C16 as stated.  Every vehicle step whose external time lies within      *)
(* [first_ts, last_ts] either fails or moves the cursor forward by exactly *)
(* one, onto a sample whose timestep is the external time.                 *)
(***************************************************************************)
C16_OneSamplePerStep ==
    [][ \A v \in Vehicles :
          (ts'[v] = ts[v] + 1 /\ WindowAt(v, ts'[v]))
              => \/ failed'
                 \/ /\ trace_i'[v] = trace_i[v] + 1
                    /\ TraceOf(v).samples[trace_i'[v] + 1][1] = ExternalTs(ts'[v]) ]_vars

(***************************************************************************)
(* C16 amended.  On a vehicle step whose external time e lies within       *)
(* [first_ts, last_ts]: if the sample under the cursor has timestep e the  *)
(* step replays nothing (cursor, position and heading stay, no error); if  *)
(* it has timestep e - 1 the cursor moves forward by exactly one, and the  *)
(* step fails unless the new sample exists, has timestep e and lies        *)
(* inside the world, in which case position and heading are taken from     *)
(* it; in every other case the step fails and the cursor stays.            *)
(***************************************************************************)
C16_ReplayStep ==
    [][ \A v \in Vehicles :
          (ts'[v] = ts[v] + 1 /\ WindowAt(v, ts'[v]))
              => /\ CursorTs(v) = ExternalTs(ts'[v])
                       => /\ ~failed'
                          /\ trace_i'[v] = trace_i[v]
                          /\ vpos'[v] = vpos[v]
                          /\ angle'[v] = angle[v]
                 /\ CursorTs(v) = ExternalTs(ts'[v]) - 1
                       => /\ trace_i'[v] = trace_i[v] + 1
                          /\ ~failed' <=>
                                /\ trace_i'[v] + 1 <= Len(TraceOf(v).samples)
                                /\ TraceOf(v).samples[trace_i'[v] + 1][1] = ExternalTs(ts'[v])
                                /\ ~OutOfBounds(<<TraceOf(v).samples[trace_i'[v] + 1][2],
                                                  TraceOf(v).samples[trace_i'[v] + 1][3]>>)
                          /\ ~failed' =>
                                /\ vpos'[v] = <<TraceOf(v).samples[trace_i'[v] + 1][2],
                                                TraceOf(v).samples[trace_i'[v] + 1][3]>>
                                /\ angle'[v] = TraceOf(v).samples[trace_i'[v] + 1][4]
                 /\ (CursorTs(v) # ExternalTs(ts'[v]) /\ CursorTs(v) # ExternalTs(ts'[v]) - 1)
                       => (failed' /\ trace_i'[v] = trace_i[v]) ]_vars

C16_Witness ==
    \E v \in Vehicles :
        /\ InWindow(v)
        /\ ~failed
        /\ ts[v] >= 3
        /\ ExternalTs(ts[v]) = ExternalTs(ts[v] - 1)
        /\ trace_i[v] >= 1
        /\ CursorTs(v) = ExternalTs(ts[v])
        /\ vpos[v] = <<TraceOf(v).samples[trace_i[v] + 1][2],
                       TraceOf(v).samples[trace_i[v] + 1][3]>>

(***************************************************************************)
(* C17.  When station s steps, is_vehicle_exiting(v) of s is true exactly  *)
(* when v is farther from s than 0.7 x range and not moving toward s; and  *)
(* a step changes a vehicle's station only if it is the step of the        *)
(* station that serves it and the vehicle is exiting there at the          *)
(* positions of the tick: a vehicle within 0.7 x range of its station, or  *)
(* moving toward it, is never handed over.                                 *)
(***************************************************************************)
C17_ExitGate ==
    [][ /\ \A s \in Stations : \A v \in Vehicles :
              pc = s =>
                  (IsVehicleExiting(s, v)
                      <=> /\ BeyondThreshold(s, vpos[v])
                          /\ ~IsMovingTowards(vpos[v], angle[v], StationPos(s)))
        /\ \A v \in Vehicles :
              station'[v] # station[v]
                  => /\ pc = station[v]
                     /\ BeyondThreshold(station[v], snap'.vpos[v])
                     /\ ~IsMovingTowards(snap'.vpos[v], snap'.angle[v],
                                         StationPos(station[v])) ]_vars

C17_Witness ==
    /\ pc = NumStations
    /\ \E w \in Vehicles : handovers[w] >= 1
    /\ \E a \in Vehicles : \E t \in Stations :
          /\ station[a] = snap.station[a]
          /\ BeyondThreshold(station[a], vpos[a])
          /\ IsMovingTowards(vpos[a], angle[a], StationPos(station[a]))
          /\ OpenNeighbour(station[a], a, t)
    /\ \E b \in Vehicles : \E t \in Stations :
          /\ station[b] = snap.station[b]
          /\ ~BeyondThreshold(station[b], vpos[b])
          /\ vpos[b] # SpawnPos
          /\ ~IsMovingTowards(vpos[b], angle[b], StationPos(station[b]))
          /\ OpenNeighbour(station[b], b, t)

(***************************************************************************)
(* C18.  Whenever the step of station s moves a vehicle v to station t, t  *)
(* is a neighbour of s with distance(t, v) / range <= 1, with load below   *)
(* capacity at the moment v is reached and with v moving toward it, and no *)
(* neighbour before t in the ascending-ratio order had both load below     *)
(* capacity and v moving toward it.  And an exiting vehicle goes to the    *)
(* first neighbour in that order that is within range, below capacity and  *)
(* in the vehicle's direction: a nearer neighbour that is full or in the   *)
(* wrong direction is passed over and does not end the scan.               *)
(***************************************************************************)
C18_CandidateSelection ==
    [][ \A s \in Stations : \A v \in Vehicles : \A t \in Stations :
          (pc = s /\ pc' # pc /\ InList(served[s], v))
              => /\ (station'[v] = t /\ t # s)
                       => /\ InList(Neighbors(s), t)
                          /\ InRange(t, vpos[v])
                          /\ Takes(s, v, t)
                          /\ IndexIn(served'[t], v) = LoadWhenVisited(s, v, t) + 1
                          /\ \A o \in Stations : Precedes(s, o, t, vpos[v]) => ~Takes(s, v, o)
                 /\ ( /\ IsVehicleExiting(s, v)
                      /\ InList(Neighbors(s), t)
                      /\ InRange(t, vpos[v])
                      /\ Takes(s, v, t)
                      /\ \A o \in Stations : Precedes(s, o, t, vpos[v]) => ~Takes(s, v, o) )
                       => station'[v] = t ]_vars

C18_Witness ==
    /\ pc = NumStations
    /\ \E s \in Stations : \E t \in Stations : \E o \in Stations :
          /\ \E a \in Vehicles :
                /\ snap.station[a] = s /\ station[a] = t
                /\ Precedes(s, o, t, vpos[a])
                /\ InRange(o, vpos[a])
                /\ IsMovingTowards(vpos[a], angle[a], StationPos(o))
                /\ Len(served[o]) = StationCapacity
          /\ \E b \in Vehicles :
                /\ snap.station[b] = s /\ station[b] = t
                /\ Precedes(s, o, t, vpos[b])
                /\ InRange(o, vpos[b])
                /\ ~IsMovingTowards(vpos[b], angle[b], StationPos(o))

(***************************************************************************)
(* C19.  No step raises a station's load to more than its capacity (the    *)
(* load a handover reads is the current one, also when two stations hand   *)
(* vehicles to the same neighbour in one tick), so in every state every    *)
(* station's load is at most the larger of its capacity and its load right *)
(* after construction.                                                     *)
(***************************************************************************)
C19_CapacityAware ==
    [][ \A s \in Stations :
          /\ Len(served'[s]) > Len(served[s]) => Len(served'[s]) <= StationCapacity
          /\ Len(served'[s]) <= Max(StationCapacity, InitialLoad(s)) ]_vars

C19_Witness ==
    /\ pc = NumStations
    /\ \E s \in Stations : InitialLoad(s) > StationCapacity
    /\ \E t \in Stations :
          /\ Len(served[t]) = StationCapacity
          /\ Len(snap.served[t]) < StationCapacity
          /\ \E x \in Vehicles : \E y \in Vehicles :
                /\ snap.station[x] # t
                /\ station[x] = t
                /\ station[y] = snap.station[y]
                /\ station[y] # snap.station[x]
                /\ InList(Neighbors(station[y]), t)
                /\ IsVehicleExiting(station[y], y)
                /\ InRange(t, vpos[y])
                /\ IsMovingTowards(vpos[y], angle[y], StationPos(t))

(***************************************************************************)
(* C20 as stated.  If, when station s takes its step, a vehicle it serves  *)
(* is exiting s and some neighbour is within range, has load below         *)
(* capacity at that moment and lies in the vehicle's direction, then that  *)
(* step hands the vehicle over.                                            *)
(***************************************************************************)
C20_RetryAtStepStart ==
    [][ \A s \in Stations : \A v \in Vehicles :
          ( /\ pc = s /\ pc' # pc
            /\ InList(served[s], v)
            /\ IsVehicleExiting(s, v)
            /\ \E t \in Stations : OpenNeighbour(s, v, t) )
              => station'[v] # s ]_vars

(***************************************************************************)
(* C20 amended.  If, when the step of station s reaches a vehicle it       *)
(* serves, the vehicle is exiting s and some neighbour is within range,    *)
(* lies in the vehicle's direction and has load below capacity at that     *)
(* moment (the vehicles handed to it earlier in the same step counted),    *)
(* then that step hands the vehicle to a neighbour, however many earlier   *)
(* steps kept it.                                                          *)
(***************************************************************************)
C20_RetryEveryTick ==
    [][ \A s \in Stations : \A v \in Vehicles :
          ( /\ pc = s /\ pc' # pc
            /\ InList(served[s], v)
            /\ IsVehicleExiting(s, v)
            /\ \E t \in Stations :
                  /\ InList(Neighbors(s), t)
                  /\ InRange(t, vpos[v])
                  /\ Takes(s, v, t) )
              => /\ station'[v] # s
                 /\ InList(Neighbors(s), station'[v])
                 /\ InList(served'[station'[v]], v)
                 /\ deferrals'[v] = deferrals[v] ]_vars

C20_Witness ==
    /\ pc = NumStations
    /\ \E v \in Vehicles :
          /\ deferrals[v] >= 2
          /\ active[v]
          /\ station[v] # snap.station[v]
          /\ Len(snap.served[station[v]]) = StationCapacity
          /\ InList(served[station[v]], v)

(***************************************************************************)
(* C21 as stated.  Right after construction a vehicle whose trace begins   *)
(* at timestep 0 is at the position of its trace sample for timestep 0,    *)
(* and the station it is assigned to is the nearest one to that position.  *)
(***************************************************************************)
C21_SpawnAtFirstSample ==
    (tick = 0 /\ pc = 0) =>
        \A v \in Vehicles :
            TraceOf(v).first_ts = 0
                => /\ vpos[v] = FirstSamplePos(v)
                   /\ station[v] = NearestStation(FirstSamplePos(v))

(***************************************************************************)
(* C22 as stated.  In every state (after construction and after every      *)
(* step) an active vehicle's position and heading are the x, y and heading *)
(* of the trace sample whose timestep is the vehicle's external time, the  *)
(* first sample of the trace included.                                     *)
(***************************************************************************)
C22_PositionIsSample ==
    \A v \in Vehicles :
        (active[v] /\ InWindow(v) /\ ~FailedAt(v))
            => /\ vpos[v] = <<SampleAt(v, ExternalTs(ts[v]))[2],
                              SampleAt(v, ExternalTs(ts[v]))[3]>>
               /\ angle[v] = SampleAt(v, ExternalTs(ts[v]))[4]

(***************************************************************************)
(* C23.  Each of the 4 stations has exactly two neighbours, its ring       *)
(* successor and its ring predecessor, never itself and never the opposite *)
(* station, and the neighbour relation is symmetric; and every step that   *)
(* changes a vehicle's station moves it to a station ring-adjacent to the  *)
(* one it had, never to the same station.                                  *)
(***************************************************************************)
C23_Ring ==
    [][ /\ \A s \in Stations :
              /\ Len(Neighbors(s)) = 2
              /\ Neighbors(s)[1] = RingSucc(s)
              /\ Neighbors(s)[2] = RingPred(s)
              /\ Neighbors(s)[1] # Neighbors(s)[2]
              /\ ~InList(Neighbors(s), s)
              /\ ~InList(Neighbors(s), Opposite(s))
              /\ \A t \in Stations : InList(Neighbors(s), t) <=> InList(Neighbors(t), s)
        /\ \A v \in Vehicles :
              /\ handovers'[v] # handovers[v]
                    => /\ handovers'[v] = handovers[v] + 1
                       /\ station'[v] # station[v]
                       /\ station'[v] \in {RingSucc(station[v]), RingPred(station[v])}
                       /\ InList(served'[station'[v]], v)
              /\ station'[v] # station[v] => handovers'[v] # handovers[v] ]_vars

C23_Witness ==
    \E a \in Vehicles : \E b \in Vehicles :
        /\ handovers[a] = 1
        /\ station[a] = RingSucc(spawnStation[a])
        /\ InList(served[station[a]], a)
        /\ handovers[b] = 1
        /\ station[b] = RingPred(spawnStation[b])
        /\ InList(served[station[b]], b)

(***************************************************************************)
(* C24.  A step takes a vehicle out of a station's served list only by     *)
(* putting it into the served list of a neighbour of that station in the   *)
(* same step; so the sum of the stations' loads never changes and is the   *)
(* number of spawned vehicles, also while a station is above its capacity  *)
(* and after vehicles have gone inactive.                                  *)
(***************************************************************************)
C24_NeverDrop ==
    [][ /\ \A s \in Stations : \A v \in Vehicles :
              (InList(served[s], v) /\ ~InList(served'[s], v))
                  => \E t \in Stations :
                        /\ InList(Neighbors(s), t)
                        /\ ~InList(served[t], v)
                        /\ Count(served'[t], v) = 1
                        /\ Len(served'[t]) > Len(served[t])
        /\ SumLoad(served', NumStations - 1) = SumLoad(served, NumStations - 1)
        /\ SumLoad(served, NumStations - 1) = Len(fleet) ]_vars

C24_Witness ==
    /\ \E s \in Stations : Len(served[s]) > StationCapacity
    /\ \E v \in Vehicles :
          /\ Ended(v)
          /\ ~active[v]
          /\ handovers[v] >= 1
          /\ InList(served[station[v]], v)
          /\ ~InList(served[spawnStation[v]], v)

(***************************************************************************)
(* C25.  A vehicle is handed over at most once per tick: a step that hands *)
(* a vehicle over finds it at the station it had when the tick began, also *)
(* when the receiving station steps later in the same tick, because the    *)
(* vehicle is moving toward the station that received it and so is not     *)
(* exiting there, and no position changes while the stations step.         *)
(***************************************************************************)
C25_OncePerTick ==
    [][ \A v \in Vehicles :
          handovers'[v] # handovers[v]
              => /\ handovers'[v] = handovers[v] + 1
                 /\ station[v] = snap'.station[v]
                 /\ station'[v] # snap'.station[v]
                 /\ vpos'[v] = vpos[v] /\ angle'[v] = angle[v]
                 /\ IsMovingTowards(vpos'[v], angle'[v], StationPos(station'[v]))
                 /\ ~IsVehicleExiting(station'[v], v) ]_vars

C25_Witness ==
    /\ pc = NumStations
    /\ \E v \in Vehicles :
          /\ station[v] # snap.station[v]
          /\ snap.station[v] < station[v]
          /\ InList(served[station[v]], v)
          /\ stationSteps[station[v]] = tick + 1
          /\ BeyondThreshold(snap.station[v], vpos[v])

(***************************************************************************)
(* C26.  For a vehicle whose trace is contiguous: no step moves the cursor *)
(* back, a step moves it forward by at most one and only the vehicle's own *)
(* step moves it, the cursor is never past the last sample, no             *)
(* desynchronisation error is raised (the only failure is a sample outside *)
(* the world), and after every vehicle step whose external time lies in    *)
(* [first_ts, last_ts] the sample under the cursor has that external time  *)
(* as its timestep.                                                        *)
(***************************************************************************)
C26_CursorDiscipline ==
    [][ \A v \in Vehicles :
          Contiguous(TraceOf(v))
              => /\ trace_i'[v] >= trace_i[v]
                 /\ trace_i'[v] <= trace_i[v] + 1
                 /\ trace_i'[v] # trace_i[v] => ts'[v] = ts[v] + 1
                 /\ trace_i'[v] + 1 <= Len(TraceOf(v).samples)
                 /\ (ts'[v] = ts[v] + 1 /\ WindowAt(v, ts'[v]))
                       => TraceOf(v).samples[trace_i'[v] + 1][1] = ExternalTs(ts'[v])
                 /\ (failed' /\ pc' = NumStations + v - 1)
                       => /\ OutOfBounds(vpos'[v])
                          /\ vpos'[v] = <<TraceOf(v).samples[trace_i'[v] + 1][2],
                                          TraceOf(v).samples[trace_i'[v] + 1][3]>> ]_vars

C26_Witness ==
    /\ ~failed
    /\ \E v \in Vehicles :
          /\ Contiguous(TraceOf(v))
          /\ TraceOf(v).first_ts > 0
          /\ Ended(v)
          /\ trace_i[v] = Len(TraceOf(v).samples) - 1
          /\ trace_i[v] >= 1
    /\ \E w \in Vehicles :
          /\ Contiguous(TraceOf(w))
          /\ TraceOf(w).first_ts = 0
          /\ Ended(w)
          /\ trace_i[w] = Len(TraceOf(w).samples) - 1
          /\ trace_i[w] >= 3

(***************************************************************************)
(* C27.  The step of a vehicle changes only that vehicle's tick counter,   *)
(* cursor, position, heading and active flag: every served list, every     *)
(* station reference and every other vehicle's fields stay as they were.   *)
(* The step of a station changes only served lists and station references: *)
(* every vehicle's position, heading, cursor, tick counter and active flag *)
(* stay as they were (a station's position, range, capacity and neighbour  *)
(* list are fixed at construction).                                        *)
(***************************************************************************)
C27_Frames ==
    [][ /\ \A v \in Vehicles :
              pc = NumStations + v - 1
                  => /\ served' = served
                     /\ station' = station
                     /\ \A w \in Vehicles :
                           w # v => /\ ts'[w] = ts[w]
                                    /\ trace_i'[w] = trace_i[w]
                                    /\ vpos'[w] = vpos[w]
                                    /\ angle'[w] = angle[w]
                                    /\ active'[w] = active[w]
        /\ pc < NumStations
              => /\ vpos' = vpos
                 /\ angle' = angle
                 /\ trace_i' = trace_i
                 /\ active' = active
                 /\ ts' = ts
                 /\ ~failed' ]_vars

C27_Witness ==
    /\ NumVehicles >= 2
    /\ pc = NumStations + 1
    /\ vpos[1] # snap.vpos[1]
    /\ angle[1] # snap.angle[1]
    /\ ts[2] = tick
    /\ vpos[2] = snap.vpos[2]
    /\ \E w \in Vehicles :
          /\ handovers[w] >= 1
          /\ station[w] # spawnStation[w]
          /\ InList(served[station[w]], w)

(***************************************************************************)
(* C28 as stated.  In every reachable state every vehicle's recorded       *)
(* position lies within [0, width] x [0, height]: the replay of a sample   *)
(* outside these bounds fails and does not move the vehicle there.         *)
(***************************************************************************)
C28_WithinWorld == \A v \in Vehicles : InWorld(vpos[v])

=============================================================================
